---- MODULE Spec2Model ----
(***************************************************************************)
(* FC-VRP-RESULTS.py: the results dashboard of the FCVRP ILS algorithm.    *)
(* The model follows one run of the script: load_data, main's page         *)
(* dispatch, categorize_instances, calculate_statistics, the home page and *)
(* the instance-detail page.                                               *)
(*                                                                         *)
(* A Python dict whose iteration order the code uses (results,             *)
(* valid_instances, invalid_instances) is a sequence of                    *)
(* [name, data] entries with distinct names, in insertion order.  A dict   *)
(* that is only looked up (best_known, validation_data) is a function.     *)
(* Solving times are whole seconds; minutes are kept in hundredths.        *)
(***************************************************************************)
EXTENDS Integers, Sequences, FiniteSets, TLC

(* ---- bounds of the model ---- *)
MaxCost == 2
MaxValidation == 2

InstanceNames == {"inst1.txt", "inst2.txt"}
Costs == 0..MaxCost
SolvingTimes == {100}
ValidationPaths == {<<"Instances", "inst1.txt">>, <<"inst2.txt">>}

VARIABLES
    files,              \* the three JSON sources on disk
    entry,              \* the function the run entered through
    pc,                 \* position of the run
    results,            \* load_data's results
    best_known,         \* load_data's best_known
    validation_data,    \* load_data's validation_data
    page,               \* main's page selection
    valid_instances,    \* categorize_instances: valid_instances
    invalid_instances,  \* categorize_instances: invalid_instances
    idx,                \* position of the running for loop
    stats,              \* calculate_statistics: stats
    detailed_results,   \* calculate_statistics: detailed_results
    instance_name,      \* display_instance_detail's instance_name
    shown,              \* st.error / st.warning / sections written so far
    metrics,            \* st.metric cells of the instance-detail page
    footer              \* main's sidebar footer

vars == <<files, entry, pc, results, best_known, validation_data, page,
          valid_instances, invalid_instances, idx, stats, detailed_results,
          instance_name, shown, metrics, footer>>

(* ---- dicts ---- *)
EmptyMap == [n \in {} |-> 0]

Keys(d) == {d[k].name : k \in DOMAIN d}

Lookup(d, name) == d[CHOOSE k \in DOMAIN d : d[k].name = name].data

\* d[name] = data on a dict: replaces in place, or appends a new key
DictSet(d, name, data) ==
    IF name \in Keys(d)
    THEN [k \in DOMAIN d |-> IF d[k].name = name
                             THEN [name |-> name, data |-> data] ELSE d[k]]
    ELSE Append(d, [name |-> name, data |-> data])

(* ---- the inputs ---- *)
InstanceData == [cost : Costs, solving_time_seconds : SolvingTimes]

ResultEntries == [name : InstanceNames, data : InstanceData]

ResultsDicts ==
    {d \in UNION {[1..n -> ResultEntries] : n \in 0..Cardinality(InstanceNames)} :
        \A a, b \in DOMAIN d : a # b => d[a].name # d[b].name}

BestKnownMaps == UNION {[S -> Costs] : S \in SUBSET InstanceNames}

\* an entry of the validation list; the last one lacks the 'instance' field
ValidationItems == [instance : ValidationPaths, valid : BOOLEAN] \cup {[valid |-> TRUE]}

ValidationLists == UNION {[1..n -> ValidationItems] : n \in 0..MaxValidation}

Absent == [state |-> "absent", content |-> EmptyMap]
Malformed == [state |-> "malformed", content |-> EmptyMap]
Readable(c) == [state |-> "ok", content |-> c]

FileSystems ==
    [results : {Absent, Malformed} \cup {Readable(c) : c \in ResultsDicts},
     best_known : {Absent, Malformed} \cup {Readable(c) : c \in BestKnownMaps},
     validation : {Absent, Malformed} \cup {Readable(c) : c \in ValidationLists}]

NoFiles == [results |-> Absent, best_known |-> Absent, validation |-> Absent]

(* ---- load_data ---- *)
\* os.path.basename: the component after the last separator
basename(path) == path[Len(path)]

\* the dict comprehension of load_data: a later item replaces an earlier one
\* with the same base name
ValidationDict(list) ==
    [key \in {basename(list[k].instance) : k \in DOMAIN list} |->
        LET last == CHOOSE k \in DOMAIN list :
                        /\ basename(list[k].instance) = key
                        /\ \A m \in DOMAIN list :
                               basename(list[m].instance) = key => m <= k
        IN  list[last]]

LoadFailure ==
    [results |-> <<>>, best_known |-> EmptyMap, validation_data |-> EmptyMap,
     messages |-> {"error: Error loading data"}]

load_data_catch_all(f) ==
    IF f.results.state # "ok" \/ f.best_known.state # "ok"
    THEN LoadFailure
    ELSE IF \/ f.validation.state # "ok"
            \/ \E k \in DOMAIN f.validation.content :
                   "instance" \notin DOMAIN f.validation.content[k]
         THEN [results |-> f.results.content,
               best_known |-> f.best_known.content,
               validation_data |-> EmptyMap,
               messages |-> {"warning: Validation file not found"}]
         ELSE [results |-> f.results.content,
               best_known |-> f.best_known.content,
               validation_data |-> ValidationDict(f.validation.content),
               messages |-> {}]

load_data_no_recovery(f) ==
    IF \/ f.results.state # "ok" \/ f.best_known.state # "ok"
       \/ f.validation.state # "ok"
       \/ \E k \in DOMAIN f.validation.content :
              "instance" \notin DOMAIN f.validation.content[k]
    THEN LoadFailure
    ELSE [results |-> f.results.content,
          best_known |-> f.best_known.content,
          validation_data |-> ValidationDict(f.validation.content),
          messages |-> {}]

load_data(f) ==
    IF f.results.state # "ok" \/ f.best_known.state # "ok"
    THEN LoadFailure                    \* outer except Exception
    ELSE IF f.validation.state = "absent"
         THEN [results |-> f.results.content,       \* except FileNotFoundError
               best_known |-> f.best_known.content,
               validation_data |-> EmptyMap,
               messages |-> {"warning: Validation file not found"}]
         ELSE IF \/ f.validation.state = "malformed"
                 \/ \E k \in DOMAIN f.validation.content :
                        "instance" \notin DOMAIN f.validation.content[k]
              THEN LoadFailure          \* JSONDecodeError, KeyError: outer except
              ELSE [results |-> f.results.content,
                    best_known |-> f.best_known.content,
                    validation_data |-> ValidationDict(f.validation.content),
                    messages |-> {}]

(* ---- categorize_instances ---- *)
goes_to_valid_unless_listed(instance, validation) ==
    instance \in DOMAIN validation /\ validation[instance].valid

\* lines 103-110: the branch an instance takes
goes_to_valid(instance, validation) ==
    IF instance \in DOMAIN validation
    THEN validation[instance].valid
    ELSE TRUE                       \* no validation data: assume valid

DictAssignFresh(d, name, data) == <<[name |-> name, data |-> data]>>

\* valid_instances[instance] = data, invalid_instances[instance] = data
DictAssign(d, name, data) == DictSet(d, name, data)

RECURSIVE categorize_loop(_, _, _, _, _)
categorize_loop(k, res, validation, valid, invalid) ==
    IF k > Len(res)
    THEN [valid |-> valid, invalid |-> invalid]
    ELSE IF goes_to_valid(res[k].name, validation)
         THEN categorize_loop(k + 1, res, validation,
                              DictAssign(valid, res[k].name, res[k].data), invalid)
         ELSE categorize_loop(k + 1, res, validation,
                              valid, DictAssign(invalid, res[k].name, res[k].data))

categorize_instances(res, validation) ==
    categorize_loop(1, res, validation, <<>>, <<>>)

(* ---- calculate_statistics ---- *)
InitialStats(valid) ==
    [total_instances |-> Len(valid), better |-> 0, equal |-> 0, worse |-> 0,
     total_improvement |-> 0, total_degradation |-> 0, compared_instances |-> 0]

compare_signed(my_cost, best_cost) ==
    IF my_cost < best_cost
    THEN [status |-> "Better", difference |-> best_cost - my_cost]
    ELSE IF my_cost = best_cost
         THEN [status |-> "Equal", difference |-> 0]
         ELSE [status |-> "Worse", difference |-> best_cost - my_cost]

\* lines 135-150: status and difference of one comparison
compare(my_cost, best_cost) ==
    IF my_cost < best_cost
    THEN [status |-> "Better", difference |-> best_cost - my_cost]
    ELSE IF my_cost = best_cost
         THEN [status |-> "Equal", difference |-> 0]
         ELSE [status |-> "Worse", difference |-> my_cost - best_cost]

count_equal_dropped(st, c) ==
    [st EXCEPT !.compared_instances = @ + 1,
               !.better = IF c.status = "Better" THEN @ + 1 ELSE @,
               !.worse = IF c.status = "Worse" THEN @ + 1 ELSE @,
               !.total_improvement = IF c.status = "Better" THEN @ + c.difference ELSE @,
               !.total_degradation = IF c.status = "Worse" THEN @ + c.difference ELSE @]

count_totals_assigned(st, c) ==
    [st EXCEPT !.compared_instances = @ + 1,
               !.better = IF c.status = "Better" THEN @ + 1 ELSE @,
               !.equal = IF c.status = "Equal" THEN @ + 1 ELSE @,
               !.worse = IF c.status = "Worse" THEN @ + 1 ELSE @,
               !.total_improvement = IF c.status = "Better" THEN c.difference ELSE @,
               !.total_degradation = IF c.status = "Worse" THEN c.difference ELSE @]

\* lines 131-150: the counters after one compared instance
count(st, c) ==
    [st EXCEPT !.compared_instances = @ + 1,
               !.better = IF c.status = "Better" THEN @ + 1 ELSE @,
               !.equal = IF c.status = "Equal" THEN @ + 1 ELSE @,
               !.worse = IF c.status = "Worse" THEN @ + 1 ELSE @,
               !.total_improvement = IF c.status = "Better" THEN @ + c.difference ELSE @,
               !.total_degradation = IF c.status = "Worse" THEN @ + c.difference ELSE @]

\* round(seconds / 60, 2), in hundredths of a minute; whole seconds never
\* fall on a rounding tie
round_minutes(seconds) == (seconds * 100 + 30) \div 60

\* lines 152-159
detail_record(instance, data, best_cost, c) ==
    [Instance |-> instance, MyCost |-> data.cost, BestKnown |-> best_cost,
     Status |-> c.status, Difference |-> c.difference,
     TimeMin |-> round_minutes(data.solving_time_seconds)]

statistics_iteration_counts_first(st, details, instance, data, best) ==
    IF instance \in DOMAIN best
    THEN LET c == compare(data.cost, best[instance])
         IN  [stats |-> count(st, c),
              details |-> Append(details, detail_record(instance, data, best[instance], c))]
    ELSE [stats |-> [st EXCEPT !.compared_instances = @ + 1], details |-> details]

\* lines 130-159: one iteration of the loop of calculate_statistics
statistics_iteration(st, details, instance, data, best) ==
    IF instance \in DOMAIN best
    THEN LET c == compare(data.cost, best[instance])
         IN  [stats |-> count(st, c),
              details |-> Append(details, detail_record(instance, data, best[instance], c))]
    ELSE [stats |-> st, details |-> details]

statistics_of_all_results(res, valid) == res

\* line 173: the instances display_home_page hands to calculate_statistics
statistics_input(res, valid) == valid

(* ---- display_instance_detail ---- *)
is_valid_only_if_listed(name, validation) ==
    name \in DOMAIN validation /\ validation[name].valid

\* lines 314-316
is_valid(name, validation) ==
    IF name \in DOMAIN validation THEN validation[name].valid ELSE TRUE

\* lines 324-382: the four metric cells
detail_metrics(name, data, best) ==
    {[label |-> "My Solution Cost", value |-> data.cost],
     [label |-> "Solving Time", value |-> round_minutes(data.solving_time_seconds)]}
    \cup
    (IF name \in DOMAIN best
     THEN {[label |-> "Best Known Cost", available |-> TRUE, value |-> best[name]],
           [label |-> "Performance", available |-> TRUE,
            status |-> compare(data.cost, best[name]).status,
            delta |-> compare(data.cost, best[name]).difference]}
     ELSE {[label |-> "Best Known Cost", available |-> FALSE],
           [label |-> "Performance", available |-> FALSE]})

(* ---- main's sidebar footer, lines 490-498 ---- *)
NoFooter == [written |-> FALSE]

sidebar_footer(res, validation) ==
    IF validation # EmptyMap
    THEN [written |-> TRUE, total |-> Len(res), counts |-> TRUE,
          valid |-> Cardinality({k \in DOMAIN validation : validation[k].valid}),
          invalid |-> Cardinality(DOMAIN validation)
                      - Cardinality({k \in DOMAIN validation : validation[k].valid})]
    ELSE [written |-> TRUE, total |-> Len(res), counts |-> FALSE]

(* ---- display_home_page, lines 175-299 ---- *)
home_page_sections(st) ==
    {"metrics: overview"} \cup
    (IF st.compared_instances > 0
     THEN {"Performance vs Best Known Solutions", "Detailed Results"}
     ELSE {"warning: No comparable instances found"})

(* ---- the run ---- *)
Locals ==
    /\ page = "none"
    /\ valid_instances = <<>>
    /\ invalid_instances = <<>>
    /\ idx = 0
    /\ stats = InitialStats(<<>>)
    /\ detailed_results = <<>>
    /\ instance_name = ""
    /\ shown = {}
    /\ metrics = {}
    /\ footer = NoFooter

\* the script is started: nothing is loaded yet
Init ==
    /\ files \in FileSystems
    /\ entry = "main"
    /\ pc = "start"
    /\ results = <<>>
    /\ best_known = EmptyMap
    /\ validation_data = EmptyMap
    /\ Locals

\* main line 443: results, best_known, validation_data = load_data()
LoadData ==
    /\ pc = "start"
    /\ LET r == load_data(files)
       IN  /\ results' = r.results
           /\ best_known' = r.best_known
           /\ validation_data' = r.validation_data
           /\ shown' = shown \cup r.messages
    /\ pc' = "main"
    /\ UNCHANGED <<files, entry, page, valid_instances, invalid_instances, idx,
                   stats, detailed_results, instance_name, metrics, footer>>

\* main lines 445-447
MainNoData ==
    /\ pc = "main"
    /\ results = <<>>
    /\ shown' = shown \cup {"error: No data loaded"}
    /\ pc' = "done"
    /\ UNCHANGED <<files, entry, results, best_known, validation_data, page,
                   valid_instances, invalid_instances, idx, stats,
                   detailed_results, instance_name, metrics, footer>>

\* main lines 453-463: the page selectbox
MainSelectPage ==
    /\ pc = "main"
    /\ results # <<>>
    /\ \E p \in {"Home", "Details"} : page' = p
    /\ pc' = "categorize"
    /\ UNCHANGED <<files, entry, results, best_known, validation_data,
                   valid_instances, invalid_instances, idx, stats,
                   detailed_results, instance_name, shown, metrics, footer>>

\* lines 170-173 (home page) and 463 (details page): categorize_instances,
\* and on the home page the entry into calculate_statistics, lines 117-127
Categorize ==
    /\ pc = "categorize"
    /\ LET c == categorize_instances(results, validation_data)
       IN  /\ valid_instances' = c.valid
           /\ invalid_instances' = c.invalid
           /\ IF page = "Home"
              THEN /\ stats' = InitialStats(statistics_input(results, c.valid))
                   /\ detailed_results' = <<>>
                   /\ idx' = 1
                   /\ pc' = "statistics"
              ELSE /\ pc' = "select"
                   /\ UNCHANGED <<stats, detailed_results, idx>>
    /\ UNCHANGED <<files, entry, results, best_known, validation_data, page,
                   instance_name, shown, metrics, footer>>

\* one iteration of the loop of calculate_statistics, lines 129-159
StatisticsStep ==
    /\ pc = "statistics"
    /\ LET arg == statistics_input(results, valid_instances)
       IN  /\ idx <= Len(arg)
           /\ LET r == statistics_iteration(stats, detailed_results,
                                            arg[idx].name, arg[idx].data, best_known)
              IN  /\ stats' = r.stats
                  /\ detailed_results' = r.details
    /\ idx' = idx + 1
    /\ UNCHANGED <<files, entry, pc, results, best_known, validation_data, page,
                   valid_instances, invalid_instances, instance_name, shown,
                   metrics, footer>>

\* calculate_statistics returns (line 161); display_home_page renders, lines
\* 175-299; main writes the footer, lines 490-498
RenderHome ==
    /\ pc = "statistics"
    /\ idx > Len(statistics_input(results, valid_instances))
    /\ shown' = shown \cup home_page_sections(stats)
    /\ footer' = IF entry = "main" THEN sidebar_footer(results, validation_data)
                                   ELSE footer
    /\ pc' = "done"
    /\ UNCHANGED <<files, entry, results, best_known, validation_data, page,
                   valid_instances, invalid_instances, idx, stats,
                   detailed_results, instance_name, metrics>>

\* lines 471-475: the instances the two checkboxes leave
available_instances(show_valid, show_invalid) ==
    (IF show_valid THEN Keys(valid_instances) ELSE {})
    \cup (IF show_invalid THEN Keys(invalid_instances) ELSE {})

\* main lines 465-486: the checkboxes and the instance selectbox
SelectInstance ==
    /\ pc = "select"
    /\ \E show_valid, show_invalid \in BOOLEAN :
          \E selected \in available_instances(show_valid, show_invalid) :
              instance_name' = selected
    /\ pc' = "detail"
    /\ UNCHANGED <<files, entry, results, best_known, validation_data, page,
                   valid_instances, invalid_instances, idx, stats,
                   detailed_results, shown, metrics, footer>>

\* main lines 487-498: no instance passes the checkboxes
NoInstanceMatches ==
    /\ pc = "select"
    /\ \E show_valid, show_invalid \in BOOLEAN :
          available_instances(show_valid, show_invalid) = {}
    /\ shown' = shown \cup {"warning: No instances match"}
    /\ footer' = sidebar_footer(results, validation_data)
    /\ pc' = "done"
    /\ UNCHANGED <<files, entry, results, best_known, validation_data, page,
                   valid_instances, invalid_instances, idx, stats,
                   detailed_results, instance_name, metrics>>

\* display_instance_detail, lines 302-437, and main's footer after it
DisplayInstanceDetail ==
    /\ pc = "detail"
    /\ IF instance_name \notin Keys(results)
       THEN /\ shown' = shown \cup {"header: Instance",
                                    "error: Instance not found in results!"}
            /\ metrics' = metrics
       ELSE IF ~is_valid(instance_name, validation_data)
            THEN /\ shown' = shown \cup {"header: Instance",
                                         "error: Invalid Solution"}
                 /\ metrics' = metrics
            ELSE /\ shown' = shown \cup {"header: Instance",
                                         "Solution Visualization",
                                         "Solution Details",
                                         "Additional Information"}
                 /\ metrics' = detail_metrics(instance_name,
                                              Lookup(results, instance_name),
                                              best_known)
    /\ footer' = IF entry = "main" THEN sidebar_footer(results, validation_data)
                                   ELSE footer
    /\ pc' = "done"
    /\ UNCHANGED <<files, entry, results, best_known, validation_data, page,
                   valid_instances, invalid_instances, idx, stats,
                   detailed_results, instance_name>>

Next ==
    \/ LoadData
    \/ MainNoData
    \/ MainSelectPage
    \/ Categorize
    \/ StatisticsStep
    \/ RenderHome
    \/ SelectInstance
    \/ NoInstanceMatches
    \/ DisplayInstanceDetail

Spec == Init /\ [][Next]_vars

(* ---- the functions on their own: any loaded data, any instance name ---- *)
ValidationMaps ==
    {v \in UNION {[S -> [instance : ValidationPaths, valid : BOOLEAN]] :
                      S \in SUBSET InstanceNames} :
        \A n \in DOMAIN v : basename(v[n].instance) = n}

InitUnit ==
    /\ files = NoFiles
    /\ entry = "caller"
    /\ pc = "call"
    /\ results \in ResultsDicts
    /\ best_known \in BestKnownMaps
    /\ validation_data \in ValidationMaps
    /\ Locals

\* display_home_page(results, best_known, validation_data)
CallHomePage ==
    /\ pc = "call"
    /\ entry' = "display_home_page"
    /\ page' = "Home"
    /\ pc' = "categorize"
    /\ UNCHANGED <<files, results, best_known, validation_data,
                   valid_instances, invalid_instances, idx, stats,
                   detailed_results, instance_name, shown, metrics, footer>>

\* display_instance_detail(instance_name, results, best_known, validation_data)
CallInstanceDetail ==
    /\ pc = "call"
    /\ entry' = "display_instance_detail"
    /\ \E name \in InstanceNames : instance_name' = name
    /\ pc' = "detail"
    /\ UNCHANGED <<files, results, best_known, validation_data, page,
                   valid_instances, invalid_instances, idx, stats,
                   detailed_results, shown, metrics, footer>>

NextUnit ==
    \/ CallHomePage
    \/ CallInstanceDetail
    \/ Categorize
    \/ StatisticsStep
    \/ RenderHome
    \/ DisplayInstanceDetail

SpecUnit == InitUnit /\ [][NextUnit]_vars

(* ---- properties ---- *)
Abs(x) == IF x < 0 THEN -x ELSE x

\* categorize_instances has returned in this run
Categorized == page # "none" /\ pc # "categorize"

\* calculate_statistics has returned and the home page is rendered
HomeRendered == page = "Home" /\ pc = "done"

\* display_instance_detail has returned
DetailReturned == pc = "done" /\ "header: Instance" \in shown

RecordsWith(status) ==
    {k \in DOMAIN detailed_results : detailed_results[k].Status = status}

RECURSIVE SumDifference(_, _)
SumDifference(details, status) ==
    IF details = <<>> THEN 0
    ELSE (IF Head(details).Status = status THEN Head(details).Difference ELSE 0)
         + SumDifference(Tail(details), status)

\* C1: the (valid, invalid) pair categorize_instances returns partitions
\* results: no name is a key of both, the keys of the two are together the
\* keys of results, each key occurs once, and each name keeps the data record
\* it has in results.
C1_Partition ==
    Categorized =>
        /\ Keys(valid_instances) \cap Keys(invalid_instances) = {}
        /\ Keys(valid_instances) \cup Keys(invalid_instances) = Keys(results)
        /\ Len(valid_instances) + Len(invalid_instances) = Len(results)
        /\ \A k \in DOMAIN valid_instances :
               valid_instances[k].data = Lookup(results, valid_instances[k].name)
        /\ \A k \in DOMAIN invalid_instances :
               invalid_instances[k].data = Lookup(results, invalid_instances[k].name)

C1_Witness ==
    /\ Categorized
    /\ Len(valid_instances) = 1
    /\ Len(invalid_instances) = 1

\* C2: an instance of results is placed in invalid exactly when the
\* validation mapping has its name with valid false; an instance that is
\* absent from the validation mapping, or present with valid true, is in valid.
C2_InvalidIffFlaggedFalse ==
    Categorized =>
        \A n \in Keys(results) :
            /\ n \in Keys(invalid_instances)
                 <=> (n \in DOMAIN validation_data /\ ~validation_data[n].valid)
            /\ (n \notin DOMAIN validation_data) => n \in Keys(valid_instances)
            /\ (n \in DOMAIN validation_data /\ validation_data[n].valid)
                 => n \in Keys(valid_instances)

C2_Witness ==
    /\ Categorized
    /\ \E n \in Keys(valid_instances) : n \notin DOMAIN validation_data
    /\ \E n \in Keys(invalid_instances) : ~validation_data[n].valid

\* C3: in every detail record of calculate_statistics, My Cost and Best Known
\* are the instance's cost and its best-known cost, Status is Better iff
\* my_cost < best_cost, Equal iff they are equal, Worse iff my_cost > best_cost,
\* and Difference is |my_cost - best_cost|, never negative.
C3_StatusAndDifference ==
    \A k \in DOMAIN detailed_results :
        LET r == detailed_results[k]
            my_cost == Lookup(results, r.Instance).cost
            best_cost == best_known[r.Instance]
        IN  /\ r.MyCost = my_cost
            /\ r.BestKnown = best_cost
            /\ (r.Status = "Better") <=> (my_cost < best_cost)
            /\ (r.Status = "Equal") <=> (my_cost = best_cost)
            /\ (r.Status = "Worse") <=> (my_cost > best_cost)
            /\ r.Difference = Abs(my_cost - best_cost)
            /\ r.Difference >= 0

C3_Witness ==
    /\ HomeRendered
    /\ RecordsWith("Worse") # {}
    /\ RecordsWith("Better") # {}

\* C4: after every iteration of the loop of calculate_statistics, and in the
\* value it returns, better + equal + worse = compared_instances = the
\* number of detail records.
C4_CountsAgree ==
    /\ stats.better + stats.equal + stats.worse = stats.compared_instances
    /\ stats.compared_instances = Len(detailed_results)

C4_Witness ==
    /\ pc = "statistics"
    /\ idx = 3
    /\ stats.equal = 1
    /\ stats.compared_instances = 2

\* C5: in the value calculate_statistics returns, total_improvement is the sum
\* of Difference over the Better records and total_degradation the sum of
\* Difference over the Worse records; Equal records add to neither.
C5_TotalsAreSums ==
    HomeRendered =>
        /\ stats.total_improvement = SumDifference(detailed_results, "Better")
        /\ stats.total_degradation = SumDifference(detailed_results, "Worse")

C5_Witness ==
    /\ HomeRendered
    /\ Cardinality(RecordsWith("Better")) = 2
    /\ stats.total_improvement = 3

\* C6: on the home page an instance has a detail record, and is counted in
\* compared_instances and in one status, exactly when it is in results, is
\* classified valid and is a key of best_known; an invalid instance is never
\* listed, and a valid instance without a best-known cost is counted nowhere.
Compared ==
    {n \in InstanceNames : /\ n \in Keys(results)
                           /\ n \in Keys(valid_instances)
                           /\ n \in DOMAIN best_known}

Listed == {detailed_results[k].Instance : k \in DOMAIN detailed_results}

NoOverlap == Keys(valid_instances) \cap DOMAIN best_known = {}

C7_AllZeroAsStated ==
    (HomeRendered /\ NoOverlap) =>
        /\ stats = [total_instances |-> 0, better |-> 0, equal |-> 0, worse |-> 0,
                    total_improvement |-> 0, total_degradation |-> 0,
                    compared_instances |-> 0]
        /\ detailed_results = <<>>
        /\ "warning: No comparable instances found" \in shown

\* C7, amended: when no valid instance is a key of best_known, the stats
\* returned have compared_instances, better, equal, worse, total_improvement
\* and total_degradation 0 and total_instances the number of valid instances,
\* there is no detail record, and the home page shows the warning of no
\* comparable instances, no error and no performance section.
C7_ZeroButTotalInstances ==
    (HomeRendered /\ NoOverlap) =>
        /\ stats = [total_instances |-> Len(valid_instances),
                    better |-> 0, equal |-> 0, worse |-> 0,
                    total_improvement |-> 0, total_degradation |-> 0,
                    compared_instances |-> 0]
        /\ detailed_results = <<>>
        /\ "warning: No comparable instances found" \in shown
        /\ "Performance vs Best Known Solutions" \notin shown
        /\ \A m \in shown : m \notin {"error: Error loading data",
                                      "error: No data loaded"}

C7_Witness ==
    /\ HomeRendered
    /\ NoOverlap
    /\ stats.total_instances >= 1
    /\ best_known # EmptyMap

\* C8: display_instance_detail ends in exactly one of three outcomes: not
\* found iff the name is no key of results; otherwise invalid solution iff
\* categorize_instances on the same results and validation puts the name in
\* invalid; otherwise the full detail.  The first two outcomes write no
\* metric, whether or not best_known has the name.
NotFound == "error: Instance not found in results!" \in shown
InvalidSolution == "error: Invalid Solution" \in shown
FullDetail == "Additional Information" \in shown

C8_ThreeOutcomes ==
    DetailReturned =>
        /\ NotFound <=> instance_name \notin Keys(results)
        /\ InvalidSolution <=>
               /\ instance_name \in Keys(results)
               /\ instance_name \in
                      Keys(categorize_instances(results, validation_data).invalid)
        /\ FullDetail <=> (~NotFound /\ ~InvalidSolution)
        /\ ~(NotFound /\ InvalidSolution)
        /\ (NotFound \/ InvalidSolution) => metrics = {}
        /\ FullDetail =>
               {m.label : m \in metrics} =
                   {"My Solution Cost", "Solving Time", "Best Known Cost", "Performance"}

C8_Witness ==
    /\ DetailReturned
    /\ InvalidSolution
    /\ instance_name \in DOMAIN best_known

\* C9: with both mandatory sources readable and the validation source absent,
\* load_data returns results and best_known as read and an empty validation
\* mapping, writes the warning and no error, and every loaded instance is
\* then classified valid.
ValidationAbsent ==
    /\ files.results.state = "ok"
    /\ files.best_known.state = "ok"
    /\ files.validation.state = "absent"

C9_MissingValidationIsRecovered ==
    (ValidationAbsent /\ pc # "start") =>
        /\ results = files.results.content
        /\ best_known = files.best_known.content
        /\ validation_data = EmptyMap
        /\ "warning: Validation file not found" \in shown
        /\ "error: Error loading data" \notin shown
        /\ Categorized => /\ valid_instances = results
                          /\ invalid_instances = <<>>

C9_Witness ==
    /\ ValidationAbsent
    /\ Categorized
    /\ Len(valid_instances) = 2

\* C10: when the validation source is present but cannot be consumed (it does
\* not parse, or an entry lacks 'instance'), load_data drops what it read and
\* returns three empty mappings with the load error, as it does when a
\* mandatory source is missing or malformed; main then writes 'No data
\* loaded' and renders no page.  Only the absent validation file is recovered
\* from.
ValidationUnusable ==
    \/ files.validation.state = "malformed"
    \/ /\ files.validation.state = "ok"
       /\ \E k \in DOMAIN files.validation.content :
              "instance" \notin DOMAIN files.validation.content[k]

MandatoryUnusable ==
    files.results.state # "ok" \/ files.best_known.state # "ok"

C10_UnusableValidationFailsLoad ==
    (pc # "start" /\ (ValidationUnusable \/ MandatoryUnusable)) =>
        /\ results = <<>>
        /\ best_known = EmptyMap
        /\ validation_data = EmptyMap
        /\ "error: Error loading data" \in shown
        /\ "warning: Validation file not found" \notin shown
        /\ pc \in {"main", "done"}
        /\ page = "none"
        /\ pc = "done" => /\ "error: No data loaded" \in shown
                          /\ shown = {"error: Error loading data",
                                      "error: No data loaded"}
                          /\ metrics = {}
                          /\ footer = NoFooter

C10_Witness ==
    /\ pc = "done"
    /\ files.results.state = "ok"
    /\ files.results.content # <<>>
    /\ files.best_known.state = "ok"
    /\ files.validation.state = "ok"
    /\ \E k \in DOMAIN files.validation.content :
           "instance" \notin DOMAIN files.validation.content[k]
    /\ "error: No data loaded" \in shown

====
